---- MODULE Spec2Model ----
(***************************************************************************)
(* A model of the file-deduplication utility: discovery (collect_files),   *)
(* hashing and grouping (hash_files, DedupResult) and the action engine    *)
(* (perform_deduplication, perform_action and the four file operations),   *)
(* over a small explicit filesystem.                                       *)
(*                                                                         *)
(* A path is <<dir, name>>; a name is a sequence of one-character strings, *)
(* so that the collision naming of move_file is computed character by      *)
(* character as format! does.  The filesystem `fs` maps each existing path *)
(* to its entry: a regular file with its bytes, or a symbolic link.        *)
(***************************************************************************)
EXTENDS Integers, Sequences, FiniteSets, TLC

VARIABLES
    fs,        \* existing path -> entry ([kind, data] or [kind, to])
    dirs,      \* the directories that exist
    roots,     \* the directories handed to scan_directories
    config,    \* ScanConfig (min_size, max_size, include/exclude extensions)
    pc,        \* where the program is: "start", "hashing", "scanned", "acting", "failed"
    files,     \* collect_files' candidate list
    infos,     \* index of `files` -> the FileInfo its hashing task produced
    done,      \* the indices of `files` in the order their hashing tasks completed
               \* (kept until the scan's result is handed to perform_deduplication)
    result,    \* the DedupResult of the scan
    run,       \* the perform_deduplication call in progress (or the last one)
    snap,      \* fs and dirs as they were when that call began
    dryTotal,  \* the summaries of the completed dry runs, in order
    last,      \* the last file operation: its arguments, the filesystem before it,
               \* its result and the mutating filesystem calls it made
    faults,    \* environment failures injected so far
    denied,    \* what the environment refused during discovery: the directories
               \* it would not list and the files whose metadata it would not give
    appends,   \* external appends (a writer outside the program) so far
    uq         \* inputs and outputs of the unique-name functions (SpecNames)

vars == <<fs, dirs, roots, config, pc, files, infos, done, result, run, snap,
          dryTotal, last, faults, denied, appends, uq>>

---------------------------------------------------------------------------
(* Bounds of the model. *)

MaxRoots == 2
MaxFaults == 1
MaxAppends == 1
MaxDryRuns == 2
MaxTaken == 2

---------------------------------------------------------------------------
(* Sequence helpers. *)

Range(s) == {s[i] : i \in DOMAIN s}

\* All orders in which the elements of a finite set can be listed.
RECURSIVE Orders(_)
Orders(S) ==
    IF S = {} THEN {<<>>}
    ELSE UNION {{<<x>> \o o : o \in Orders(S \ {x})} : x \in S}

\* The position of the last element of s equal to c; 0 when there is none.
RECURSIVE LastIndexOf(_, _)
LastIndexOf(s, c) ==
    IF s = <<>> THEN 0
    ELSE IF s[Len(s)] = c THEN Len(s)
    ELSE LastIndexOf(SubSeq(s, 1, Len(s) - 1), c)

---------------------------------------------------------------------------
(* File names, as Path and str see them. *)

DigitChar == <<"0", "1", "2", "3", "4", "5", "6", "7", "8", "9">>

\* format!("{}", counter) for a non-negative integer.
RECURSIVE Decimal(_)
Decimal(k) ==
    IF k < 10 THEN <<DigitChar[k + 1]>>
    ELSE Decimal(k \div 10) \o <<DigitChar[(k % 10) + 1]>>

\* std::path::Path::file_stem: the name up to its last dot; the whole name when
\* it has no dot or its only dot is the first character (a hidden file).
file_stem(name) ==
    LET d == LastIndexOf(name, ".") IN
    IF d <= 1 THEN name ELSE SubSeq(name, 1, d - 1)

\* std::path::Path::extension: what follows the last dot; <<>> stands for both
\* None and Some(""), which move_file treats alike (unwrap_or_default, is_empty).
extension(name) ==
    LET d == LastIndexOf(name, ".") IN
    IF d <= 1 THEN <<>> ELSE SubSeq(name, d + 1, Len(name))

\* Whether Path::extension is Some(_).
has_extension(name) == LastIndexOf(name, ".") > 1

\* utils::split_filename: split at the last dot wherever it is.
split_filename(filename) ==
    LET d == LastIndexOf(filename, ".") IN
    IF d > 0
    THEN <<SubSeq(filename, 1, d - 1), SubSeq(filename, d + 1, Len(filename))>>
    ELSE <<filename, <<>>>>

\* format!("{}_{}", stem, counter) and format!("{}_{}.{}", stem, counter, ext).
suffixed_name(stem, ext, counter) ==
    IF ext = <<>> THEN stem \o <<"_">> \o Decimal(counter)
    ELSE stem \o <<"_">> \o Decimal(counter) \o <<".">> \o ext

\* The while loop of move_file and of generate_unique_filename: `taken` are the
\* names that exist in the directory, `cand` the name tried now.
RECURSIVE unique_loop(_, _, _, _, _)
unique_loop(taken, stem, ext, cand, counter) ==
    IF cand \notin taken THEN cand
    ELSE unique_loop(taken, stem, ext, suffixed_name(stem, ext, counter), counter + 1)

\* move_file's destination name for a source file named `name`.
move_target_name(taken, name) ==
    unique_loop(taken, file_stem(name), extension(name), name, 1)

\* utils::generate_unique_filename's name for original_name.
generate_unique_filename(taken, original_name) ==
    LET se == split_filename(original_name) IN
    unique_loop(taken, se[1], se[2], original_name, 1)

---------------------------------------------------------------------------
(* The filesystem. *)

AT == <<"a", ".", "t">>
B == <<"b">>

\* Directory "s" is r/s; "q" is a separate tree; "x" does not exist; "q/b" is
\* the path of the regular file b of q, given as a root; "t0" and
\* "t1" are move targets outside the scanned trees, "t0" not yet created and
\* "t1" holding a.t and a dangling symbolic link b.
SubDirs(d) == IF d = "r" THEN {"s"} ELSE {}
RootChoices == {"r", "s", "q", "x", "q/b"}
Targets == {"t0", "t1"}

SrcPaths == {<<"r", AT>>, <<"s", AT>>, <<"q", B>>, <<"q", AT>>}

\* The files a writer outside the program may be appending to during the scan.
Growing == {<<"q", B>>}

\* File contents are byte sequences; an append adds one byte.
Contents == {<<1>>, <<1, 2>>}
AppendByte(c) == c \o <<2>>

File(c) == [kind |-> "file", data |-> c]
Symlink(p) == [kind |-> "symlink", to |-> p]
NoEntry == [kind |-> "none"]

\* What a path resolves to, following symbolic links as fs::metadata and
\* Path::exists do; NoEntry for a missing path, a dangling link or a link loop.
RECURSIVE Resolve(_, _, _)
Resolve(f, p, fuel) ==
    IF p \notin DOMAIN f THEN NoEntry
    ELSE IF f[p].kind = "file" THEN f[p]
    ELSE IF fuel = 0 THEN NoEntry
    ELSE Resolve(f, f[p].to, fuel - 1)

\* fs::metadata(p): Ok with the length, or Err.
Metadata(f, p, flt) ==
    LET e == Resolve(f, p, Cardinality(DOMAIN f)) IN
    IF flt = "metadata" \/ e.kind = "none" THEN [ok |-> FALSE, len |-> 0]
    ELSE [ok |-> TRUE, len |-> Len(e.data)]

\* Path::exists.
Exists(f, p) == Resolve(f, p, Cardinality(DOMAIN f)).kind # "none"

\* The names that exist in directory d.
NamesIn(f, d) == {p[2] : p \in {q \in DOMAIN f : q[1] = d /\ Exists(f, q)}}

Without(f, p) == [q \in DOMAIN f \ {p} |-> f[q]]
With(f, p, e) == [q \in DOMAIN f \cup {p} |-> IF q = p THEN e ELSE f[q]]

\* fs::remove_file(p): removes the entry at p itself (a link is not followed).
RemoveFile(f, p, flt) ==
    IF flt = "remove" \/ p \notin DOMAIN f THEN [ok |-> FALSE, fs |-> f]
    ELSE [ok |-> TRUE, fs |-> Without(f, p)]

\* fs::rename(src, dst): dst is replaced when it exists.
Rename(f, d, src, dst, flt) ==
    IF flt = "rename" \/ src \notin DOMAIN f \/ dst[1] \notin d
    THEN [ok |-> FALSE, fs |-> f]
    ELSE [ok |-> TRUE, fs |-> With(Without(f, src), dst, f[src])]

\* fs::hard_link(original, link): a second name for original's file.
HardLink(f, original, link, flt) ==
    IF flt = "link" \/ original \notin DOMAIN f \/ link \in DOMAIN f
    THEN [ok |-> FALSE, fs |-> f]
    ELSE [ok |-> TRUE, fs |-> With(f, link, f[original])]

\* std::os::unix::fs::symlink(original, link): original need not exist.
SymlinkAt(f, original, link, flt) ==
    IF flt = "link" \/ link \in DOMAIN f THEN [ok |-> FALSE, fs |-> f]
    ELSE [ok |-> TRUE, fs |-> With(f, link, Symlink(original))]

\* fs::create_dir_all(dir).
CreateDirAll(d, dir, flt) ==
    IF dir \in d THEN [ok |-> TRUE, dirs |-> d]
    ELSE IF flt = "mkdir" THEN [ok |-> FALSE, dirs |-> d]
    ELSE [ok |-> TRUE, dirs |-> d \cup {dir}]

---------------------------------------------------------------------------
(* actions.rs: the file operations.  Each returns                          *)
(*   ok    - Result::Ok (TRUE) or Err (FALSE, the `?` on metadata/mkdir),   *)
(*   op    - the FileOperation when ok,                                     *)
(*   fs, dirs - the filesystem afterwards,                                  *)
(*   calls - the mutating filesystem calls it made, in order.               *)
(* `flt` names the call the environment makes fail in this operation.      *)

FaultKinds == {"metadata", "remove", "rename", "link", "mkdir"}

FileOperation(path, action, success, error, space_saved) ==
    [path |-> path, action |-> action, success |-> success, error |-> error,
     space_saved |-> space_saved]

NoOperation == FileOperation(<<>>, "", FALSE, "None", 0)

Call(name, ok) == [call |-> name, ok |-> ok]

Outcome(ok, op, f, d, c) == [ok |-> ok, op |-> op, fs |-> f, dirs |-> d, calls |-> c]

\* A faulty variant, for comparison: a failed removal leaves delete_file with Err.
delete_file_remove_or_err(f, d, path, dry_run, flt) ==
    LET md == Metadata(f, path, flt)
        rm == RemoveFile(f, path, flt)
    IN  IF ~md.ok THEN Outcome(FALSE, NoOperation, f, d, <<>>)
        ELSE IF dry_run
        THEN Outcome(TRUE, FileOperation(path, "delete", TRUE, "None", md.len), f, d, <<>>)
        ELSE IF rm.ok
        THEN Outcome(TRUE, FileOperation(path, "delete", TRUE, "None", md.len),
                     rm.fs, d, <<Call("remove_file", TRUE)>>)
        ELSE Outcome(FALSE, NoOperation, f, d, <<Call("remove_file", FALSE)>>)

delete_file(f, d, path, dry_run, flt) ==
    LET md == Metadata(f, path, flt)
        rm == RemoveFile(f, path, flt)
    IN  IF ~md.ok THEN Outcome(FALSE, NoOperation, f, d, <<>>)
        ELSE IF dry_run
        THEN Outcome(TRUE, FileOperation(path, "delete", TRUE, "None", md.len), f, d, <<>>)
        ELSE IF rm.ok
        THEN Outcome(TRUE, FileOperation(path, "delete", TRUE, "None", md.len),
                     rm.fs, d, <<Call("remove_file", TRUE)>>)
        ELSE Outcome(TRUE, FileOperation(path, "delete", FALSE, "Failed to delete", 0),
                     f, d, <<Call("remove_file", FALSE)>>)

\* A faulty variant, for comparison: the target directory is created in a dry run too.
ensure_target_dir_always(d, target_dir, dry_run, flt) == CreateDirAll(d, target_dir, flt)

\* move_file's "create target directory if it doesn't exist": live runs only.
ensure_target_dir(d, target_dir, dry_run, flt) ==
    IF ~dry_run THEN CreateDirAll(d, target_dir, flt) ELSE [ok |-> TRUE, dirs |-> d]

move_file(f, d, source, target_dir, dry_run, flt) ==
    LET md == Metadata(f, source, flt)
        mk == ensure_target_dir(d, target_dir, dry_run, flt)
        mkCalls == IF dry_run THEN <<>> ELSE <<Call("create_dir_all", mk.ok)>>
        target_path == <<target_dir, move_target_name(NamesIn(f, target_dir), source[2])>>
        rn == Rename(f, mk.dirs, source, target_path, flt)
    IN  IF ~md.ok THEN Outcome(FALSE, NoOperation, f, d, <<>>)
        ELSE IF ~mk.ok THEN Outcome(FALSE, NoOperation, f, d, mkCalls)
        ELSE IF dry_run
        THEN Outcome(TRUE, FileOperation(source, "move", TRUE, "None", md.len),
                     f, mk.dirs, mkCalls)
        ELSE IF rn.ok
        THEN Outcome(TRUE, FileOperation(source, "move", TRUE, "None", md.len),
                     rn.fs, mk.dirs, mkCalls \o <<Call("rename", TRUE)>>)
        ELSE Outcome(TRUE, FileOperation(source, "move", FALSE, "Failed to move", 0),
                     f, mk.dirs, mkCalls \o <<Call("rename", FALSE)>>)

\* A faulty variant, for comparison: a failed removal does not return; the link is attempted all the same.
create_hardlink_no_return(f, d, original, duplicate, dry_run, flt) ==
    LET md == Metadata(f, duplicate, flt)
        rm == RemoveFile(f, duplicate, flt)
        ln == HardLink(rm.fs, original, duplicate, flt)
    IN  IF ~md.ok THEN Outcome(FALSE, NoOperation, f, d, <<>>)
        ELSE IF dry_run
        THEN Outcome(TRUE, FileOperation(duplicate, "hardlink", TRUE, "None", md.len), f, d, <<>>)
        ELSE IF ln.ok
        THEN Outcome(TRUE, FileOperation(duplicate, "hardlink", TRUE, "None", md.len),
                     ln.fs, d, <<Call("remove_file", rm.ok), Call("hard_link", TRUE)>>)
        ELSE Outcome(TRUE, FileOperation(duplicate, "hardlink", FALSE,
                                         "Failed to create hardlink", 0),
                     rm.fs, d, <<Call("remove_file", rm.ok), Call("hard_link", FALSE)>>)

create_hardlink(f, d, original, duplicate, dry_run, flt) ==
    LET md == Metadata(f, duplicate, flt)
        rm == RemoveFile(f, duplicate, flt)
        ln == HardLink(rm.fs, original, duplicate, flt)
    IN  IF ~md.ok THEN Outcome(FALSE, NoOperation, f, d, <<>>)
        ELSE IF dry_run
        THEN Outcome(TRUE, FileOperation(duplicate, "hardlink", TRUE, "None", md.len), f, d, <<>>)
        ELSE IF ~rm.ok
        THEN Outcome(TRUE, FileOperation(duplicate, "hardlink", FALSE,
                                         "Failed to remove duplicate before hardlinking", 0),
                     f, d, <<Call("remove_file", FALSE)>>)
        ELSE IF ln.ok
        THEN Outcome(TRUE, FileOperation(duplicate, "hardlink", TRUE, "None", md.len),
                     ln.fs, d, <<Call("remove_file", TRUE), Call("hard_link", TRUE)>>)
        ELSE Outcome(TRUE, FileOperation(duplicate, "hardlink", FALSE,
                                         "Failed to create hardlink", 0),
                     rm.fs, d, <<Call("remove_file", TRUE), Call("hard_link", FALSE)>>)

create_symlink(f, d, original, duplicate, dry_run, flt) ==
    LET md == Metadata(f, duplicate, flt)
        rm == RemoveFile(f, duplicate, flt)
        ln == SymlinkAt(rm.fs, original, duplicate, flt)
    IN  IF ~md.ok THEN Outcome(FALSE, NoOperation, f, d, <<>>)
        ELSE IF dry_run
        THEN Outcome(TRUE, FileOperation(duplicate, "symlink", TRUE, "None", md.len), f, d, <<>>)
        ELSE IF ~rm.ok
        THEN Outcome(TRUE, FileOperation(duplicate, "symlink", FALSE,
                                         "Failed to remove duplicate before symlinking", 0),
                     f, d, <<Call("remove_file", FALSE)>>)
        ELSE IF ln.ok
        THEN Outcome(TRUE, FileOperation(duplicate, "symlink", TRUE, "None", md.len),
                     ln.fs, d, <<Call("remove_file", TRUE), Call("symlink", TRUE)>>)
        ELSE Outcome(TRUE, FileOperation(duplicate, "symlink", FALSE,
                                         "Failed to create symlink", 0),
                     rm.fs, d, <<Call("remove_file", TRUE), Call("symlink", FALSE)>>)

\* DedupAction: [kind |-> "List" | "Delete" | "Hardlink" | "Symlink"] or
\* [kind |-> "Move", target |-> dir].
DedupActions ==
    {[kind |-> k, target |-> ""] : k \in {"List", "Delete", "Hardlink", "Symlink"}}
    \cup {[kind |-> "Move", target |-> t] : t \in Targets}

\* The match of perform_action for one duplicate (List never gets here).
file_action(f, d, action, original, duplicate, dry_run, flt) ==
    CASE action.kind = "Delete" -> delete_file(f, d, duplicate, dry_run, flt)
      [] action.kind = "Move" -> move_file(f, d, duplicate, action.target, dry_run, flt)
      [] action.kind = "Hardlink" -> create_hardlink(f, d, original, duplicate, dry_run, flt)
      [] action.kind = "Symlink" -> create_symlink(f, d, original, duplicate, dry_run, flt)

\* ActionResult::new and add_operation.
NewActionResult == [operations |-> <<>>, total_space_saved |-> 0, total_files_processed |-> 0]

\* A faulty variant, for comparison: only successful operations are counted as
\* processed.
add_operation_counts_successes(res, operation) ==
    [operations |-> Append(res.operations, operation),
     total_space_saved |-> res.total_space_saved + operation.space_saved,
     total_files_processed |-> res.total_files_processed
                               + (IF operation.success THEN 1 ELSE 0)]

add_operation(res, operation) ==
    [operations |-> Append(res.operations, operation),
     total_space_saved |-> res.total_space_saved + operation.space_saved,
     total_files_processed |-> res.total_files_processed + 1]

IsSuccess(op) == op.success
IsError(op) == ~op.success
success_count(res) == Len(SelectSeq(res.operations, IsSuccess))
error_count(res) == Len(SelectSeq(res.operations, IsError))

\* The merge loop of perform_deduplication: every operation of a group's result
\* is added to the total.
RECURSIVE merge_operations(_, _)
merge_operations(total, ops) ==
    IF ops = <<>> THEN total
    ELSE merge_operations(add_operation(total, Head(ops)), Tail(ops))

---------------------------------------------------------------------------
(* scanner.rs: discovery. *)

\* str::to_lowercase on the characters file names use here.
LowerChar(ch) == IF ch = "T" THEN "t" ELSE IF ch = "A" THEN "a" ELSE IF ch = "B" THEN "b" ELSE ch
to_lowercase(str) == [i \in DOMAIN str |-> LowerChar(str[i])]

\* ScanConfig; max_size -1 stands for None.
ScanConfig(min_size, max_size, include_extensions, exclude_extensions) ==
    [min_size |-> min_size, max_size |-> max_size,
     include_extensions |-> include_extensions, exclude_extensions |-> exclude_extensions]

DefaultConfig == ScanConfig(0, -1, {}, {})

\* Scanner::set_include_extensions and set_exclude_extensions: the extensions
\* are stored lower-cased.
set_include_extensions(cfg, extensions) ==
    [cfg EXCEPT !.include_extensions = {to_lowercase(e) : e \in extensions}]

set_exclude_extensions(cfg, extensions) ==
    [cfg EXCEPT !.exclude_extensions = {to_lowercase(e) : e \in extensions}]

\* A faulty variant, for comparison: an extension in the include list is not
\* looked up in the exclude list.
should_include_file_allow_wins(f, path, cfg, flt) ==
    LET md == Metadata(f, path, flt)
        size == md.len
        ext_str == to_lowercase(extension(path[2]))
    IN  IF ~md.ok THEN [ok |-> FALSE, include |-> FALSE]
        ELSE IF size < cfg.min_size THEN [ok |-> TRUE, include |-> FALSE]
        ELSE IF cfg.max_size # -1 /\ size > cfg.max_size THEN [ok |-> TRUE, include |-> FALSE]
        ELSE IF has_extension(path[2])
        THEN IF cfg.include_extensions # {}
             THEN [ok |-> TRUE, include |-> ext_str \in cfg.include_extensions]
             ELSE [ok |-> TRUE, include |-> ext_str \notin cfg.exclude_extensions]
        ELSE [ok |-> TRUE, include |-> cfg.include_extensions = {}]

\* Scanner::should_include_file: [ok |-> metadata succeeded, include |-> the verdict].
should_include_file(f, path, cfg, flt) ==
    LET md == Metadata(f, path, flt)
        size == md.len
        ext_str == to_lowercase(extension(path[2]))
    IN  IF ~md.ok THEN [ok |-> FALSE, include |-> FALSE]
        ELSE IF size < cfg.min_size THEN [ok |-> TRUE, include |-> FALSE]
        ELSE IF cfg.max_size # -1 /\ size > cfg.max_size THEN [ok |-> TRUE, include |-> FALSE]
        ELSE IF has_extension(path[2])
        THEN IF cfg.include_extensions # {} /\ ext_str \notin cfg.include_extensions
             THEN [ok |-> TRUE, include |-> FALSE]
             ELSE IF ext_str \in cfg.exclude_extensions
             THEN [ok |-> TRUE, include |-> FALSE]
             ELSE [ok |-> TRUE, include |-> TRUE]
        ELSE IF cfg.include_extensions # {}
        THEN [ok |-> TRUE, include |-> FALSE]
        ELSE [ok |-> TRUE, include |-> TRUE]

\* A directory entry as WalkDir meets it: a regular file or a subdirectory.
\* Symbolic links are neither followed nor files (follow_links(false), is_file).
DirEntries(f, ds) ==
    {[parent |-> p[1], kind |-> "file", what |-> p] :
        p \in {q \in DOMAIN f : f[q].kind = "file"}}
    \cup {[parent |-> pd[1], kind |-> "dir", what |-> pd[2]] :
        pd \in {x \in ds \X ds : x[2] \in SubDirs(x[1])}}

\* The orders in which the filesystem may list directory entries: files before
\* subdirectories by name, or the reverse of that.
Reverse(s) == [i \in DOMAIN s |-> s[Len(s) + 1 - i]]

DirRank(d) ==
    CASE d = "r" -> 1 [] d = "s" -> 2 [] d = "q" -> 3 [] d = "t0" -> 4 [] d = "t1" -> 5
      [] OTHER -> 6

EntryKey(e) ==
    IF e.kind = "file" THEN DirRank(e.what[1]) * 10 + Len(e.what[2])
    ELSE 100 + DirRank(e.what)

EntryBefore(a, b) == EntryKey(a) < EntryKey(b)

ReaddirOrders(entries) ==
    LET sorted == CHOOSE o \in Orders(entries) :
                     \A i, j \in DOMAIN o : i < j => ~EntryBefore(o[j], o[i])
    IN  {sorted, Reverse(sorted)}

\* A root given as a path to a regular file, and the file it names.
RootFiles == {"q/b"}
RootFilePath(root) == <<"q", B>>

\* Path::exists and Path::is_dir of a root.
root_exists(f, ds, dir) == dir \in ds \/ (dir \in RootFiles /\ Exists(f, RootFilePath(dir)))

\* A faulty variant, for comparison: every root that exists is taken for a directory.
root_is_dir_if_exists(f, ds, dir) == root_exists(f, ds, dir)

root_is_dir(f, ds, dir) == dir \in ds

\* What the environment refuses during one discovery.
NoneDenied == [unreadable |-> {}, nometa |-> {}]

\* A faulty variant, for comparison: the walk sees below a directory that
\* cannot be read.
RECURSIVE walk_reads_all(_, _, _)
walk_reads_all(rank, dir, unreadable) ==
    LET here == SelectSeq(rank, LAMBDA e : e.parent = dir)
        step[i \in 0..Len(here)] ==
            IF i = 0 THEN <<>>
            ELSE step[i - 1] \o (IF here[i].kind = "file" THEN <<here[i].what>>
                                 ELSE walk_reads_all(rank, here[i].what, unreadable))
    IN  IF dir \in RootFiles THEN <<RootFilePath(dir)>> ELSE step[Len(here)]

\* WalkDir::new(dir) filtered to regular files: the files at or below dir, each
\* directory listed in the order `rank` (the filesystem's readdir order) gives.
\* A directory that cannot be read yields an Err entry, which
\* filter_map(|e| e.ok()) drops: nothing below it is seen.  A root that is a
\* regular file yields that file.
RECURSIVE walk(_, _, _)
walk(rank, dir, unreadable) ==
    LET here == SelectSeq(rank, LAMBDA e : e.parent = dir)
        step[i \in 0..Len(here)] ==
            IF i = 0 THEN <<>>
            ELSE step[i - 1] \o (IF here[i].kind = "file" THEN <<here[i].what>>
                                 ELSE walk(rank, here[i].what, unreadable))
    IN  IF dir \in RootFiles THEN <<RootFilePath(dir)>>
        ELSE IF dir \in unreadable THEN <<>>
        ELSE step[Len(here)]

\* Scanner::collect_files: roots that do not exist or are not directories are
\* skipped; every other root is walked and the files that pass the filter are
\* pushed, root after root.  A failed metadata lookup in should_include_file
\* leaves the function with Err (the `?`).
\* [ok |-> Ok or Err, files |-> the candidate list].
RECURSIVE collect_files(_, _, _, _, _, _)
collect_files(f, ds, directories, cfg, rank, env) ==
    IF directories = <<>> THEN [ok |-> TRUE, files |-> <<>>]
    ELSE LET dir == Head(directories)
             rest == collect_files(f, ds, Tail(directories), cfg, rank, env)
             found == IF ~root_exists(f, ds, dir) THEN <<>>
                      ELSE IF ~root_is_dir(f, ds, dir) THEN <<>>
                      ELSE walk(rank, dir, env.unreadable)
             verdict(p) == should_include_file(f, p, cfg,
                               IF p \in env.nometa THEN "metadata" ELSE "none")
         IN  [ok |-> rest.ok /\ \A i \in DOMAIN found : verdict(found[i]).ok,
              files |-> SelectSeq(found, LAMBDA p : verdict(p).include) \o rest.files]

---------------------------------------------------------------------------
(* scanner.rs and lib.rs: hashing and grouping. *)

\* BLAKE3 of a file's bytes, idealised as collision-free.
calculate_hash(data) == <<"blake3">> \o data

\* FileInfo (the modification time, which nothing reads, is left out).
FileInfo(path, size, hash) == [path |-> path, size |-> size, hash |-> hash]

\* DedupResult::new.  `order` is the iteration order of the HashMap, which is
\* arbitrary but fixed once the map is built.
NewDedupResult ==
    [duplicates |-> <<>>, total_files |-> 0, total_size |-> 0, order |-> <<>>]

\* DedupResult::add_file: entry(hash).or_insert_with(Vec::new).push(file).
add_file(res, file) ==
    LET old == IF file.hash \in DOMAIN res.duplicates
               THEN res.duplicates[file.hash] ELSE <<>>
    IN  [res EXCEPT
            !.total_files = @ + 1,
            !.total_size = @ + file.size,
            !.duplicates = [h \in DOMAIN res.duplicates \cup {file.hash} |->
                               IF h = file.hash THEN Append(old, file)
                               ELSE res.duplicates[h]]]

\* A faulty variant, for comparison: nothing is filtered out.
filter_duplicates_keep_all(res) == res

\* DedupResult::filter_duplicates: retain the groups with more than one file.
filter_duplicates(res) ==
    [res EXCEPT !.duplicates =
        [h \in {k \in DOMAIN res.duplicates : Len(res.duplicates[k]) > 1} |->
            res.duplicates[h]]]

\* A faulty variant, for comparison: the FileInfos are added last to first.
RECURSIVE add_files_reversed(_, _)
add_files_reversed(res, file_infos) ==
    IF file_infos = <<>> THEN res
    ELSE add_files_reversed(add_file(res, file_infos[Len(file_infos)]),
                            SubSeq(file_infos, 1, Len(file_infos) - 1))

\* The loop of hash_files over the collected FileInfos, in the order of the list.
RECURSIVE add_files(_, _)
add_files(res, file_infos) ==
    IF file_infos = <<>> THEN res
    ELSE add_files(add_file(res, Head(file_infos)), Tail(file_infos))

\* DedupResult::get_duplicate_count and get_wasted_space: sums over the map's values.
RECURSIVE duplicate_count_over(_, _)
duplicate_count_over(dups, keys) ==
    IF keys = {} THEN 0
    ELSE LET h == CHOOSE k \in keys : TRUE IN
         (IF Len(dups[h]) > 1 THEN Len(dups[h]) - 1 ELSE 0)
         + duplicate_count_over(dups, keys \ {h})

\* A faulty variant, for comparison: every member of a group is counted, the
\* first one too.
RECURSIVE wasted_space_over_all(_, _)
wasted_space_over_all(dups, keys) ==
    IF keys = {} THEN 0
    ELSE LET h == CHOOSE k \in keys : TRUE IN
         (IF Len(dups[h]) > 1 THEN dups[h][1].size * Len(dups[h]) ELSE 0)
         + wasted_space_over_all(dups, keys \ {h})

RECURSIVE wasted_space_over(_, _)
wasted_space_over(dups, keys) ==
    IF keys = {} THEN 0
    ELSE LET h == CHOOSE k \in keys : TRUE IN
         (IF Len(dups[h]) > 1 THEN dups[h][1].size * (Len(dups[h]) - 1) ELSE 0)
         + wasted_space_over(dups, keys \ {h})

get_duplicate_count(res) == duplicate_count_over(res.duplicates, DOMAIN res.duplicates)
get_wasted_space(res) == wasted_space_over(res.duplicates, DOMAIN res.duplicates)

\* dedup::analyze_duplicates: one pass over the map in its iteration order
\* `order`; the fields that are totals (the size classes and the largest group
\* are left out).
RECURSIVE analyze_duplicates(_, _)
analyze_duplicates(scan_result, order) ==
    IF order = <<>>
    THEN [total_groups |-> 0, total_duplicates |-> 0, total_wasted_space |-> 0]
    ELSE LET analysis == analyze_duplicates(scan_result, SubSeq(order, 1, Len(order) - 1))
             group == scan_result.duplicates[order[Len(order)]]
             file_size == group[1].size
             duplicate_count == Len(group) - 1
         IN  IF Len(group) > 1
             THEN [total_groups |-> analysis.total_groups + 1,
                   total_duplicates |-> analysis.total_duplicates + duplicate_count,
                   total_wasted_space |-> analysis.total_wasted_space
                                          + file_size * duplicate_count]
             ELSE analysis

\* main::display_results: the two totals of its summary.
RECURSIVE display_results(_, _)
display_results(res, order) ==
    IF order = <<>> THEN [total_duplicates |-> 0, total_waste |-> 0]
    ELSE LET sofar == display_results(res, SubSeq(order, 1, Len(order) - 1))
             group == res.duplicates[order[Len(order)]]
             waste == group[1].size * (Len(group) - 1)
         IN  IF Len(group) > 1
             THEN [total_duplicates |-> sofar.total_duplicates + (Len(group) - 1),
                   total_waste |-> sofar.total_waste + waste]
             ELSE sofar

---------------------------------------------------------------------------
(* The state machine: scan_directories, then perform_deduplication. *)

Todo == [st |-> "todo"]
Hashed(info) == [st |-> "ok", info |-> info]
HashErr == [st |-> "err"]

NoRun ==
    [action |-> [kind |-> "List", target |-> ""], dry_run |-> FALSE, status |-> "none",
     g |-> 0, i |-> 0, group |-> NewActionResult, total |-> NewActionResult]

NoLast ==
    [original |-> <<>>, duplicate |-> <<>>, before |-> <<>>, ok |-> TRUE,
     op |-> NoOperation, calls |-> <<>>]

NoNames == [name |-> <<>>, taken |-> {}, moved |-> <<>>, unique |-> <<>>]

Configs == {DefaultConfig}

RootLists == UNION {[1..n -> RootChoices] : n \in 1..MaxRoots}

\* r/a.t holds one byte; each other source file holds either content.  The
\* move target t1 holds a file a.t and a symbolic link b whose target is gone.
InitialFs ==
    {[p \in SrcPaths \cup {<<"t1", AT>>, <<"t1", B>>} |->
        IF p \in SrcPaths THEN File(c[p])
        ELSE IF p = <<"t1", AT>> THEN File(<<7>>)
        ELSE Symlink(<<"x", B>>)] :
            c \in {x \in [SrcPaths -> Contents] : x[<<"r", AT>>] = <<1>>}}

Init ==
    /\ fs \in InitialFs
    /\ dirs = {"r", "s", "q", "t1"}
    /\ roots \in RootLists
    /\ config \in Configs
    /\ pc = "start"
    /\ files = <<>>
    /\ infos = <<>>
    /\ done = <<>>
    /\ result = NewDedupResult
    /\ run = NoRun
    /\ snap = [fs |-> fs, dirs |-> dirs]
    /\ dryTotal = <<>>
    /\ last = NoLast
    /\ faults = 0
    /\ denied = NoneDenied
    /\ appends = 0
    /\ uq = NoNames

\* The faults the environment may still inject, among `kinds`.
MayFail(kinds) == {"none"} \cup (IF faults < MaxFaults THEN kinds ELSE {})
Injected(flt) == IF flt = "none" THEN 0 ELSE 1

\* The directories at or below d.
RECURSIVE Below(_)
Below(d) == {d} \cup UNION {Below(c) : c \in SubDirs(d)}

\* The directories a discovery over `directories` reads and the files it meets
\* when nothing is refused.
DirsWalked(ds, directories) ==
    UNION {Below(directories[i]) : i \in {j \in DOMAIN directories : directories[j] \in ds}}
FilesMet(f, ds, directories) ==
    {p \in DOMAIN f : f[p].kind = "file" /\ p[1] \in DirsWalked(ds, directories)}

\* What the environment may refuse during this discovery: nothing, or (while
\* faults remain) the reading of one directory the walk comes to, or the
\* metadata of one file it meets.
Refusals ==
    {NoneDenied} \cup
    (IF faults < MaxFaults
     THEN {[unreadable |-> {d}, nometa |-> {}] : d \in DirsWalked(dirs, roots)}
          \cup {[unreadable |-> {}, nometa |-> {p}] : p \in FilesMet(fs, dirs, roots)}
     ELSE {})

\* scan_directories, first pass: collect_files; an Err leaves scan_directories
\* (the `?`), an empty list returns an empty result at once.
CollectFiles ==
    /\ pc = "start"
    /\ \E rank \in ReaddirOrders(DirEntries(fs, dirs)), env \in Refusals :
         LET c == collect_files(fs, dirs, roots, config, rank, env) IN
         /\ files' = (IF c.ok THEN c.files ELSE <<>>)
         /\ infos' = [i \in 1..Len(files') |-> Todo]
         /\ done' = <<>>
         /\ pc' = (IF ~c.ok THEN "failed" ELSE IF c.files = <<>> THEN "scanned" ELSE "hashing")
         /\ denied' = env
         /\ faults' = faults + (IF env = NoneDenied THEN 0 ELSE 1)
    /\ result' = NewDedupResult
    /\ UNCHANGED <<fs, dirs, roots, config, run, snap, dryTotal, last, appends, uq>>

\* A faulty variant, for comparison: a file that cannot be opened or read is
\* recorded with the hash of no bytes instead of failing the task.
hash_file_unreadable_as_empty(before, after, path, flt) ==
    LET md == Metadata(before, path, flt)
        e == Resolve(after, path, Cardinality(DOMAIN after))
    IN  IF ~md.ok THEN HashErr
        ELSE IF flt \in {"open", "read"} \/ e.kind = "none"
        THEN Hashed(FileInfo(path, md.len, calculate_hash(<<>>)))
        ELSE Hashed(FileInfo(path, md.len, calculate_hash(e.data)))

\* Scanner::hash_file for one path: metadata, then calculate_hash (open, read).
\* `before` is the filesystem at the metadata call, `after` at the read.
hash_file(before, after, path, flt) ==
    LET md == Metadata(before, path, flt)
        e == Resolve(after, path, Cardinality(DOMAIN after))
    IN  IF ~md.ok \/ flt \in {"open", "read"} \/ e.kind = "none" THEN HashErr
        ELSE Hashed(FileInfo(path, md.len, calculate_hash(e.data)))

\* One task of the parallel map of hash_files.  Tasks run in any order.  A writer
\* outside the program may append to the file between the task's metadata call
\* and its read.  Once a task has failed the map's result is Err whatever the
\* other tasks do, so they are not followed further.
HashFile(i) ==
    /\ pc = "hashing"
    /\ i \in DOMAIN infos
    /\ infos[i] = Todo
    /\ \A j \in DOMAIN infos : infos[j] # HashErr
    /\ \E flt \in MayFail({"metadata", "open", "read"}) :
       \E grew \in (IF appends < MaxAppends /\ files[i] \in Growing THEN BOOLEAN ELSE {FALSE}) :
         LET path == files[i]
             after == IF grew THEN With(fs, path, File(AppendByte(fs[path].data))) ELSE fs
         IN  /\ infos' = [infos EXCEPT ![i] = hash_file(fs, after, path, flt)]
             /\ done' = Append(done, i)
             /\ fs' = after
             /\ faults' = faults + Injected(flt)
             /\ appends' = appends + (IF grew THEN 1 ELSE 0)
    /\ UNCHANGED <<dirs, roots, config, pc, files, result, run, snap, dryTotal, last, uq, denied>>

\* A faulty variant, for comparison: the parallel map returns as soon as one
\* task has completed.
par_map_returned_early(infs) == \E i \in DOMAIN infs : infs[i] # Todo

\* into_par_iter().map(..).collect() has returned: every task has completed, or
\* one has failed (the tasks not yet started are then given up).
par_map_returned(infs) ==
    \/ \A i \in DOMAIN infs : infs[i] # Todo
    \/ \E i \in DOMAIN infs : infs[i] = HashErr

\* A faulty variant, for comparison: the results are gathered in the order in
\* which the tasks completed.
par_collect_as_completed(infs, completion) ==
    LET arrived == [k \in DOMAIN completion |-> infs[completion[k]]]
        completed == SelectSeq(arrived, LAMBDA t : t.st = "ok")
    IN  [i \in DOMAIN completed |-> completed[i].info]

\* collect() of the indexed parallel iterator into a Vec: the FileInfos are
\* placed by the index of their path in `files`; the order in which the tasks
\* completed plays no part.
par_collect(infs, completion) ==
    LET completed == SelectSeq(infs, LAMBDA t : t.st = "ok")
    IN  [i \in DOMAIN completed |-> completed[i].info]

\* The rest of hash_files, once the parallel map has returned: collect() gives
\* Err when a task failed (tasks not yet started may then be skipped), else the
\* FileInfos in the order of `files`; add_file each, then filter_duplicates.
HashFilesCollect ==
    /\ pc = "hashing"
    /\ par_map_returned(infos)
    /\ IF \E i \in DOMAIN infos : infos[i] = HashErr
       THEN /\ pc' = "failed"
            /\ infos' = <<>>
            /\ UNCHANGED result
       ELSE LET file_infos == par_collect(infos, done)
                built == filter_duplicates(add_files(NewDedupResult, file_infos))
            IN  /\ pc' = "scanned"
                /\ \E order \in Orders(DOMAIN built.duplicates) :
                     result' = [built EXCEPT !.order = order]
                /\ UNCHANGED infos
    /\ UNCHANGED <<fs, dirs, roots, config, files, done, run, snap, dryTotal, last,
                   faults, appends, uq, denied>>

\* The record kept of a finished dry run.
DryRecord(r, nfaults) ==
    [action |-> r.action, status |-> r.status, total |-> r.total, faults |-> nfaults]

\* perform_deduplication is entered.  The caller previews with dry runs and then
\* runs the same action live, once: a live run is not repeated without a re-scan.
StartDedup(action, dry_run) ==
    /\ pc = "scanned"
    /\ ~(run.status \in {"ok", "err"} /\ ~run.dry_run)
    /\ dry_run => Len(dryTotal) < MaxDryRuns
    /\ dryTotal # <<>> => action = dryTotal[1].action
    /\ snap' = [fs |-> fs, dirs |-> dirs]
    /\ last' = NoLast
    /\ done' = <<>>
    /\ IF action.kind = "List"
       THEN /\ run' = [NoRun EXCEPT !.action = action, !.dry_run = dry_run, !.status = "listed"]
            /\ UNCHANGED <<pc, dryTotal>>
       ELSE IF result.order = <<>>
       THEN /\ run' = [NoRun EXCEPT !.action = action, !.dry_run = dry_run, !.status = "ok"]
            /\ dryTotal' = (IF dry_run THEN Append(dryTotal, DryRecord(run', faults)) ELSE dryTotal)
            /\ UNCHANGED pc
       ELSE /\ run' = [NoRun EXCEPT !.action = action, !.dry_run = dry_run,
                                    !.status = "running", !.g = 1, !.i = 2]
            /\ pc' = "acting"
            /\ UNCHANGED dryTotal
    /\ UNCHANGED <<fs, dirs, roots, config, files, infos, result, faults, appends, uq, denied>>

\* The faults that can matter to one file operation.
FaultsOf(action, dry_run) ==
    {"metadata"} \cup
    (IF dry_run THEN {}
     ELSE CASE action.kind = "Delete" -> {"remove"}
            [] action.kind = "Move" -> {"mkdir", "rename"}
            [] OTHER -> {"remove", "link"})

\* One iteration of perform_action's loop inside perform_deduplication's loop:
\* the file operation on member i of group g.  An Err leaves both functions at
\* once (the `?`); after a group's last member its operations are merged into
\* the total; after the last group the summary is printed and the call returns.
ProcessMember ==
    /\ pc = "acting"
    /\ \E flt \in MayFail(FaultsOf(run.action, run.dry_run)) :
         LET members == result.duplicates[result.order[run.g]]
             out == file_action(fs, dirs, run.action, members[1].path,
                                members[run.i].path, run.dry_run, flt)
             group == add_operation(run.group, out.op)
             lastMember == run.i = Len(members)
             lastGroup == run.g = Len(result.order)
             total == IF lastMember THEN merge_operations(run.total, group.operations)
                      ELSE run.total
         IN  /\ fs' = out.fs
             /\ dirs' = out.dirs
             /\ last' = [original |-> members[1].path, duplicate |-> members[run.i].path,
                         before |-> fs, ok |-> out.ok, op |-> out.op, calls |-> out.calls]
             /\ faults' = faults + Injected(flt)
             /\ run' = IF ~out.ok THEN [run EXCEPT !.status = "err"]
                       ELSE IF ~lastMember THEN [run EXCEPT !.i = @ + 1, !.group = group]
                       ELSE IF ~lastGroup
                       THEN [run EXCEPT !.g = @ + 1, !.i = 2, !.group = NewActionResult,
                                        !.total = total]
                       ELSE [run EXCEPT !.status = "ok", !.group = NewActionResult,
                                        !.total = total]
             /\ pc' = (IF run'.status = "running" THEN "acting" ELSE "scanned")
             /\ dryTotal' = (IF run.dry_run /\ run'.status # "running"
                             THEN Append(dryTotal, DryRecord(run', faults')) ELSE dryTotal)
    /\ UNCHANGED <<roots, config, files, infos, done, result, snap, appends, uq, denied>>

Next ==
    \/ CollectFiles
    \/ \E i \in DOMAIN infos : HashFile(i)
    \/ HashFilesCollect
    \/ \E action \in DedupActions, dry_run \in BOOLEAN : StartDedup(action, dry_run)
    \/ ProcessMember

Spec == Init /\ [][Next]_vars

---------------------------------------------------------------------------
(* The two unique-name functions on their own: a name and the names taken  *)
(* in the directory are drawn from bounded sets, and each function is      *)
(* applied to them.                                                        *)

NameChoices ==
    {AT, B, <<".", "b">>, <<"a", ".">>, <<"a", ".", "b", ".", "t">>, <<".", "b", ".", "t">>}

\* The names either function can come to try for `name`, up to counter k.
TriedNames(name, k) ==
    {name}
    \cup {suffixed_name(file_stem(name), extension(name), c) : c \in 1..k}
    \cup {suffixed_name(split_filename(name)[1], split_filename(name)[2], c) : c \in 1..k}

InitNames ==
    /\ fs = <<>>
    /\ dirs = {}
    /\ roots = <<>>
    /\ config = DefaultConfig
    /\ pc = "names"
    /\ files = <<>>
    /\ infos = <<>>
    /\ done = <<>>
    /\ result = NewDedupResult
    /\ run = NoRun
    /\ snap = [fs |-> <<>>, dirs |-> {}]
    /\ dryTotal = <<>>
    /\ last = NoLast
    /\ faults = 0
    /\ denied = NoneDenied
    /\ appends = 0
    /\ \E name \in NameChoices :
       \E taken \in {t \in SUBSET TriedNames(name, MaxTaken) : Cardinality(t) <= MaxTaken} :
         uq = [NoNames EXCEPT !.name = name, !.taken = taken]

MoveTargetName ==
    /\ pc = "names"
    /\ uq.moved = <<>>
    /\ uq' = [uq EXCEPT !.moved = move_target_name(uq.taken, uq.name)]
    /\ UNCHANGED <<fs, dirs, roots, config, pc, files, infos, done, result, run, snap,
                   dryTotal, last, faults, appends, denied>>

GenerateUniqueFilename ==
    /\ pc = "names"
    /\ uq.unique = <<>>
    /\ uq' = [uq EXCEPT !.unique = generate_unique_filename(uq.taken, uq.name)]
    /\ UNCHANGED <<fs, dirs, roots, config, pc, files, infos, done, result, run, snap,
                   dryTotal, last, faults, appends, denied>>

NextNames == MoveTargetName \/ GenerateUniqueFilename

SpecNames == InitNames /\ [][NextNames]_vars

---------------------------------------------------------------------------
(* The file filter on its own: one file, whose name and size are drawn from  *)
(* bounded sets, under a ScanConfig set up as main does from drawn options.  *)

FilterNames == {AT, <<"a", ".", "T">>, B, <<".", "b">>, <<"a", ".">>, <<"a", ".", "b">>}
FilterContents == {<<1>>, <<1, 2>>, <<1, 2, 3>>}
MinSizes == {0, 2}
MaxSizes == {-1, 2}
ExtensionLists == {{}, {<<"t">>}, {<<"T">>}, {<<"b">>}}

FilterConfigs ==
    {set_exclude_extensions(
        set_include_extensions(ScanConfig(mn, mx, {}, {}), inc), exc) :
        mn \in MinSizes, mx \in MaxSizes, inc \in ExtensionLists, exc \in ExtensionLists}

InitFilter ==
    /\ \E name \in FilterNames, c \in FilterContents : fs = (<<"r", name>> :> File(c))
    /\ dirs = {"r"}
    /\ roots = <<"r">>
    /\ config \in FilterConfigs
    /\ pc = "filter"
    /\ files = <<>>
    /\ infos = <<>>
    /\ done = <<>>
    /\ result = NewDedupResult
    /\ run = NoRun
    /\ snap = [fs |-> <<>>, dirs |-> {}]
    /\ dryTotal = <<>>
    /\ last = NoLast
    /\ faults = 0
    /\ denied = NoneDenied
    /\ appends = 0
    /\ uq = NoNames

\* The body of collect_files' loop for the one entry of the walk.
ShouldIncludeFile ==
    /\ pc = "filter"
    /\ \E path \in DOMAIN fs, flt \in MayFail({"metadata"}) :
         LET v == should_include_file(fs, path, config, flt) IN
         /\ files' = (IF v.ok /\ v.include THEN <<path>> ELSE <<>>)
         /\ pc' = (IF ~v.ok THEN "failed" ELSE IF v.include THEN "included" ELSE "excluded")
         /\ faults' = faults + Injected(flt)
    /\ UNCHANGED <<fs, dirs, roots, config, infos, done, result, run, snap, dryTotal,
                   last, appends, uq, denied>>

NextFilter == ShouldIncludeFile

SpecFilter == InitFilter /\ [][NextFilter]_vars

---------------------------------------------------------------------------
(* Properties. *)

\* perform_deduplication has returned, Ok ("ok") or Err ("err").
Finished == run.status \in {"ok", "err"}
LiveFinished == Finished /\ ~run.dry_run
Groups == DOMAIN result.duplicates
Members(h) == result.duplicates[h]
Keeper(h) == Members(h)[1].path
MemberPaths(h) == {Members(h)[k].path : k \in DOMAIN Members(h)}
Scanned == pc \in {"scanned", "acting"}
\* scan_directories has returned Ok and its result has not been acted on yet.
ScanReturned == pc = "scanned" /\ run = NoRun

\* C1: after perform_deduplication, whatever the action and the mode, the file at
\* the path of every group's first member is still there with the content it had
\* when the call began (stated here for runs in which nothing fails in the
\* environment and no file is written from outside).
C1_KeeperUntouched ==
    (Finished /\ faults = 0 /\ appends = 0) =>
        \A h \in Groups :
            /\ Keeper(h) \in DOMAIN fs
            /\ fs[Keeper(h)] = snap.fs[Keeper(h)]

\* C2: for every action but List, whatever fails on the way, the call has gone
\* through every non-keeper member of every group when it returns: the member it
\* processed last is the last member of the last group.
C2_ContinueOnError ==
    (Finished /\ run.action.kind # "List" /\ result.order # <<>>) =>
        /\ run.g = Len(result.order)
        /\ run.i = Len(Members(result.order[run.g]))

\* C3: a dry run leaves the files, their contents and the directories as they
\* were when it began (the move target is not created), and dry runs repeated in
\* an unchanged environment report the same outcomes.
C3_DryRunNoMutation ==
    /\ (run.dry_run /\ run.status # "none") => (fs = snap.fs /\ dirs = snap.dirs)
    /\ \A i, j \in DOMAIN dryTotal :
          (dryTotal[i].faults = 0 /\ dryTotal[j].faults = 0) => dryTotal[i] = dryTotal[j]

\* A second dry run of Move into the directory that does not exist has reported
\* its outcomes, and the directory still does not exist.
C3_Witness ==
    /\ Len(dryTotal) = 2
    /\ faults = 0
    /\ run.dry_run
    /\ run.action = [kind |-> "Move", target |-> "t0"]
    /\ dryTotal[2].total.total_files_processed >= 1
    /\ "t0" \notin dirs

\* Two results report the same outcome, member by member, and the same totals.
SameOutcomes(a, b) ==
    /\ Len(a.operations) = Len(b.operations)
    /\ \A k \in DOMAIN a.operations :
          k \in DOMAIN b.operations =>
            /\ a.operations[k].path = b.operations[k].path
            /\ a.operations[k].success = b.operations[k].success
            /\ a.operations[k].space_saved = b.operations[k].space_saved
    /\ a.total_files_processed = b.total_files_processed
    /\ a.total_space_saved = b.total_space_saved
    /\ success_count(a) = success_count(b)
    /\ error_count(a) = error_count(b)

\* C4: the dry run and the live run of the same action on the same groups and the
\* same filesystem (no failure is injected in either) report the same outcome for
\* every member and end with the same totals.
C4_DryRunMatchesLive ==
    (LiveFinished /\ run.action.kind # "List" /\ dryTotal # <<>> /\ faults = 0) =>
        /\ dryTotal[1].status = run.status
        /\ SameOutcomes(dryTotal[1].total, run.total)

\* C5: a live Delete, with nothing failing in the environment, removes from a
\* group of n members of one size s exactly n - 1 files and leaves the keeper in
\* place; the reclaimed total is the wasted space the scan reported.
C5_DeleteRemovesAllButKeeper ==
    (LiveFinished /\ run.action.kind = "Delete" /\ faults = 0 /\ appends = 0) =>
        /\ run.status = "ok"
        /\ \A h \in Groups :
              (\A k \in DOMAIN Members(h) : Members(h)[k].size = Members(h)[1].size) =>
                /\ Keeper(h) \in DOMAIN fs
                /\ fs[Keeper(h)] = snap.fs[Keeper(h)]
                /\ Cardinality(MemberPaths(h) \ DOMAIN fs) = Len(Members(h)) - 1
        /\ run.total.total_space_saved = get_wasted_space(result)

RemovalMessages ==
    {"Failed to remove duplicate before hardlinking",
     "Failed to remove duplicate before symlinking"}

\* C6: a live Hardlink or Symlink operation that got past its metadata call
\* removes the duplicate first.  If the removal fails nothing else is attempted
\* and the filesystem is unchanged.  If it succeeds the link is attempted next, at
\* the duplicate's path and pointing to the keeper's; when that fails the outcome
\* is a failure with no reclaimed bytes and a message that is not the removal's,
\* and the duplicate's path stays absent.
C6_RemoveThenLink ==
    (run.action.kind \in {"Hardlink", "Symlink"} /\ ~run.dry_run
        /\ last.duplicate # <<>> /\ last.ok) =>
        LET c == last.calls
            op == last.op
            dup == last.duplicate
            linkCall == IF run.action.kind = "Hardlink" THEN "hard_link" ELSE "symlink"
            linked == IF run.action.kind = "Hardlink" THEN last.before[last.original]
                      ELSE Symlink(last.original)
        IN  /\ Len(c) >= 1
            /\ c[1].call = "remove_file"
            /\ ~c[1].ok =>
                  /\ Len(c) = 1
                  /\ fs = last.before
                  /\ ~op.success /\ op.error \in RemovalMessages /\ op.space_saved = 0
            /\ c[1].ok =>
                  /\ Len(c) = 2
                  /\ c[2].call = linkCall
                  /\ ~c[2].ok =>
                        /\ ~op.success
                        /\ op.error \notin RemovalMessages \cup {"None"}
                        /\ op.space_saved = 0
                        /\ dup \notin DOMAIN fs
                  /\ c[2].ok =>
                        /\ op.success /\ op.error = "None"
                        /\ dup \in DOMAIN fs /\ fs[dup] = linked

\* A live link operation removed the duplicate and then failed to create the link.
C6_Witness ==
    /\ run.action.kind \in {"Hardlink", "Symlink"}
    /\ ~run.dry_run
    /\ last.ok
    /\ Len(last.calls) = 2
    /\ last.calls[1].ok
    /\ ~last.calls[2].ok
    /\ last.duplicate \in DOMAIN last.before

\* C7: both unique-name functions return the same name, which is the original
\* name when that is free and otherwise a name that is free.
C7_SameUniqueName ==
    (uq.moved # <<>> /\ uq.unique # <<>>) =>
        /\ uq.moved = uq.unique
        /\ uq.moved \notin uq.taken
        /\ uq.name \notin uq.taken => uq.moved = uq.name

\* The records of the scan whose hash no other record has.
UniqueRecords ==
    {i \in DOMAIN infos :
        /\ infos[i].st = "ok"
        /\ \A j \in DOMAIN infos :
              (j # i /\ infos[j].st = "ok") => infos[j].info.hash # infos[i].info.hash}

\* C8: every group of a scan result has at least two members, every member's hash
\* is the group's key, and a record that is the only one with its hash is in no
\* group.
C8_GroupsAreDuplicates ==
    Scanned =>
        /\ \A h \in Groups :
              /\ Len(Members(h)) >= 2
              /\ \A k \in DOMAIN Members(h) : Members(h)[k].hash = h
        /\ \A i \in UniqueRecords :
              /\ infos[i].info.hash \notin Groups
              /\ \A h \in Groups : \A k \in DOMAIN Members(h) : Members(h)[k] # infos[i].info

\* A scan returned a group and left out a file that was alone with its hash.
C8_Witness ==
    /\ pc = "scanned"
    /\ Groups # {}
    /\ UniqueRecords # {}

\* C9: in every group a scan returns, all members have the same size: a mismatch
\* would have ended the scan in an error (stated here for candidate lists that
\* name no file twice).
C9_GroupSizesAgree ==
    (Scanned /\ Cardinality(Range(files)) = Len(files)) =>
        \A h \in Groups : \A k \in DOMAIN Members(h) : Members(h)[k].size = Members(h)[1].size

\* C10: no path occurs in two records of a scan result, within a group or across
\* groups, and total_files is the number of distinct candidate files.
C10_OneRecordPerFile ==
    Scanned =>
        /\ \A h1, h2 \in Groups :
              \A k1 \in DOMAIN Members(h1), k2 \in DOMAIN Members(h2) :
                 (h1 # h2 \/ k1 # k2) => Members(h1)[k1].path # Members(h2)[k2].path
        /\ result.total_files = Cardinality(Range(files))

\* The records of the scan in the order of the candidate list, and in the order
\* in which their hashing tasks completed; and those of one hash among them.
InDiscoveryOrder == [i \in DOMAIN infos |-> infos[i].info]
InCompletionOrder == [k \in DOMAIN done |-> infos[done[k]].info]
ByHash(records, h) == SelectSeq(records, LAMBDA r : r.hash = h)

\* C11 (as stated): the members of every group are in the order in which their
\* hashing tasks completed, so the keeper is the first record that completed
\* hashing with the group's hash.
C11_CompletionOrder ==
    ScanReturned => \A h \in Groups : Members(h) = ByHash(InCompletionOrder, h)

\* C11 (amended): the members of every group are in the order of the candidate
\* list (discovery order), whatever the order in which the hashing tasks
\* completed; the keeper is the first candidate with the group's hash.
C11_DiscoveryOrder ==
    ScanReturned => \A h \in Groups : Members(h) = ByHash(InDiscoveryOrder, h)

\* A scan has returned a group whose keeper was not the first of its members to
\* complete hashing.
C11_Witness ==
    /\ ScanReturned
    /\ \E h \in Groups : ByHash(InCompletionOrder, h)[1].path # Keeper(h)

\* The DedupResult of the scan as hash_files has it before filter_duplicates:
\* groups of one member are still in it.
Unfiltered == add_files(NewDedupResult, InDiscoveryOrder)

\* Counted record by record: a record is redundant when an earlier record of
\* the list has its hash, and it wastes the size of the first record with that hash.
FirstWithHash(i) == CHOOSE j \in DOMAIN infos :
    /\ infos[j].info.hash = infos[i].info.hash
    /\ \A k \in 1..(j - 1) : infos[k].info.hash # infos[i].info.hash
Redundant == {i \in DOMAIN infos : FirstWithHash(i) # i}
RECURSIVE WasteOf(_)
WasteOf(S) ==
    IF S = {} THEN 0
    ELSE LET i == CHOOSE x \in S : TRUE IN
         infos[FirstWithHash(i)].info.size + WasteOf(S \ {i})

TotalsOf(res, order) ==
    /\ get_duplicate_count(res) = Cardinality(Redundant)
    /\ get_wasted_space(res) = WasteOf(Redundant)
    /\ analyze_duplicates(res, order).total_duplicates = get_duplicate_count(res)
    /\ analyze_duplicates(res, order).total_wasted_space = get_wasted_space(res)
    /\ display_results(res, order).total_duplicates = get_duplicate_count(res)
    /\ display_results(res, order).total_waste = get_wasted_space(res)

\* C12: get_duplicate_count is the sum over groups of (size - 1) and
\* get_wasted_space the sum of first member's size * (size - 1), groups of one
\* member counting 0; analyze_duplicates and display_results compute the same
\* two totals.  Stated for the scan's result and for the result before filtering.
C12_TotalsAgree ==
    ScanReturned =>
        /\ TotalsOf(result, result.order)
        /\ \A order \in Orders(DOMAIN Unfiltered.duplicates) : TotalsOf(Unfiltered, order)

\* A scan has returned a group and wastes at least two bytes, and a file that
\* has no duplicate was in the result before filtering.
C12_Witness ==
    /\ ScanReturned
    /\ Cardinality(Groups) >= 1
    /\ get_wasted_space(result) >= 2
    /\ \E h \in DOMAIN Unfiltered.duplicates : Len(Unfiltered.duplicates[h]) = 1

\* The file of the filter run: its name, its size, and whether the filter as
\* the specification words it lets it through.
TheFile == CHOOSE p \in DOMAIN fs : TRUE
Qualifies(name, size, cfg) ==
    /\ size >= cfg.min_size
    /\ cfg.max_size # -1 => size <= cfg.max_size
    /\ \/ cfg.include_extensions = {}
       \/ has_extension(name) /\ to_lowercase(extension(name)) \in cfg.include_extensions
    /\ ~(has_extension(name) /\ to_lowercase(extension(name)) \in cfg.exclude_extensions)

\* C13: when the metadata lookup succeeds, should_include_file returns true
\* exactly when the size is within [min_size, max_size], the allow-set is empty
\* or holds the lower-cased extension, and the deny-set does not hold it; a file
\* without extension is excluded under a non-empty allow-set, and the deny-set
\* wins over the allow-set.
C13_FileFilter ==
    LET name == TheFile[2]
        size == Len(fs[TheFile].data)
    IN  /\ pc = "included" => Qualifies(name, size, config)
        /\ pc = "excluded" => ~Qualifies(name, size, config)
        /\ (pc = "included" /\ config.include_extensions # {}) => has_extension(name)
        /\ (pc = "included" /\ has_extension(name)) =>
              to_lowercase(extension(name)) \notin config.exclude_extensions

\* A file whose upper-case extension is in both sets, given in different case, and
\* whose size is within the limits, has been excluded.
C13_Witness ==
    /\ pc = "excluded"
    /\ TheFile[2] = <<"a", ".", "T">>
    /\ config.include_extensions = {<<"t">>}
    /\ config.exclude_extensions = {<<"t">>}
    /\ Len(fs[TheFile].data) = 2
    /\ config.min_size = 2
    /\ config.max_size = 2

\* C14: a hashing task whose metadata lookup, open or read fails ends in an
\* error; from then on scan_directories can only fail, and it returns no
\* DedupResult: no group is ever built, however many tasks had succeeded.  A
\* result is returned only when every task succeeded.
C14_FailFastHashing ==
    [][ /\ (pc = "hashing" /\ faults' > faults) =>
              \E i \in DOMAIN infos' : infos'[i] = HashErr
        /\ (\E i \in DOMAIN infos : infos[i] = HashErr) =>
              (pc' = "failed" /\ result' = NewDedupResult)
        /\ pc = "failed" => (pc' = "failed" /\ result' = NewDedupResult)
        /\ (pc = "hashing" /\ pc' = "scanned") =>
              \A i \in DOMAIN infos : infos[i].st = "ok" ]_vars

\* The scan has failed after at least one other task had hashed its file.
C14_Witness ==
    /\ pc = "failed"
    /\ Len(done) >= 2
    /\ result = NewDedupResult

\* collect_files has just returned Ok: no hashing task has completed yet.
JustDiscovered ==
    \/ pc = "hashing" /\ done = <<>>
    \/ pc = "scanned" /\ files = <<>> /\ run = NoRun

\* The directories at or below d that a walk from d reaches without going
\* through a directory it cannot read.
RECURSIVE BelowReadable(_, _)
BelowReadable(d, unreadable) ==
    IF d \in unreadable THEN {}
    ELSE {d} \cup UNION {BelowReadable(c, unreadable) : c \in SubDirs(d)}

\* C15 (as stated): any error met during discovery, reading a directory or
\* looking up a file's metadata, makes scan_directories return an error.
C15_DiscoveryErrorsFatal ==
    denied # NoneDenied => pc = "failed"

\* C15 (amended): a failed metadata lookup on an enumerated file makes
\* scan_directories return an error and no result; a directory that cannot be
\* read is passed over silently: discovery returns the files it reaches without
\* going through that directory, and the scan goes on with them.
C15_MetadataFatalWalkErrorsSkipped ==
    /\ denied.nometa # {} => (pc = "failed" /\ files = <<>> /\ result = NewDedupResult)
    /\ (denied.unreadable # {} /\ pc = "failed") => done # <<>>
    /\ (denied.unreadable # {} /\ JustDiscovered) =>
          Range(files) =
            {p \in DOMAIN fs :
                /\ fs[p].kind = "file"
                /\ \E i \in DOMAIN roots :
                      roots[i] \in dirs /\ p[1] \in BelowReadable(roots[i], denied.unreadable)}

\* A scan has returned groups although a directory under its roots, holding a
\* file, could not be read.
C15_Witness ==
    /\ ScanReturned
    /\ denied.unreadable # {}
    /\ Groups # {}
    /\ \E p \in FilesMet(fs, dirs, roots) : p \notin Range(files)

\* The roots that are existing directories, in the order given.
GoodRoots == SelectSeq(roots, LAMBDA d : d \in dirs)

\* C16: a root that does not exist or is not a directory is skipped without
\* aborting: discovery returns what it returns over the list without the bad
\* roots; when every root is bad the scan returns an empty result and no error.
C16_BadRootsSkipped ==
    /\ (JustDiscovered /\ denied = NoneDenied) =>
          /\ \E rank \in ReaddirOrders(DirEntries(fs, dirs)) :
                files = collect_files(fs, dirs, GoodRoots, config, rank, NoneDenied).files
          /\ Range(files) = FilesMet(fs, dirs, GoodRoots)
    /\ (GoodRoots = <<>> /\ pc # "start") =>
          (pc \in {"scanned", "acting"} /\ files = <<>> /\ result = NewDedupResult)

\* A scan over a root that is a regular file and a root that is a directory has
\* returned groups, and the file given as a root is not among the candidates.
C16_Witness ==
    /\ ScanReturned
    /\ roots = <<"q/b", "r">>
    /\ Groups # {}
    /\ RootFilePath("q/b") \in DOMAIN fs
    /\ RootFilePath("q/b") \notin Range(files)

\* C17: no hashing task runs before discovery has returned the complete
\* candidate list, which does not change afterwards; and no group is built
\* before every hashing task has completed (or the hashing phase has failed, and
\* then none is built at all).
C17_PhaseBarrier ==
    [][ /\ files' # files => (pc = "start" /\ done = <<>>)
        /\ done' # done /\ done' # <<>> => (pc = "hashing" /\ pc' = "hashing" /\ files' = files)
        /\ (pc = "start" /\ pc' # "start") => \A i \in DOMAIN infos' : infos'[i] = Todo
        /\ result' # result =>
              /\ pc = "hashing"
              /\ \A i \in DOMAIN infos : infos[i].st = "ok"
              /\ Len(done) = Len(files) ]_vars

\* Three hashing tasks have completed, not in the order of the list, and the
\* groups have been built.
C17_Witness ==
    /\ ScanReturned
    /\ Groups # {}
    /\ Len(done) = 3
    /\ done # <<1, 2, 3>>

\* The sum of space_saved over a sequence of operations.
RECURSIVE SpaceSaved(_)
SpaceSaved(ops) == IF ops = <<>> THEN 0 ELSE Head(ops).space_saved + SpaceSaved(Tail(ops))

TotalsMatch(res) ==
    /\ res.total_files_processed = Len(res.operations)
    /\ success_count(res) + error_count(res) = res.total_files_processed
    /\ res.total_space_saved = SpaceSaved(res.operations)

\* C18: in the per-group result and in the merged total of perform_deduplication,
\* total_files_processed is the number of operations kept, successes and errors
\* add up to it, total_space_saved is the sum of their space_saved; every
\* operation returned is appended to the group's result, and a finished group's
\* operations are appended to the total, in the order they were made.
C18_ActionResultTotals ==
    [][ /\ TotalsMatch(run'.total)
        /\ TotalsMatch(run'.group)
        /\ (pc = "acting" /\ last'.ok) =>
              LET group == Append(run.group.operations, last'.op) IN
              \/ /\ run'.group.operations = group
                 /\ run'.total = run.total
              \/ /\ run'.group.operations = <<>>
                 /\ run'.total.operations = run.total.operations \o group
        /\ (pc = "acting" /\ ~last'.ok) =>
              (run'.total = run.total /\ run'.group = run.group) ]_vars

\* A live run over two groups has returned with a total that holds a failed
\* operation and successful ones.
C18_Witness ==
    /\ LiveFinished
    /\ Cardinality(Groups) = 2
    /\ Len(run.total.operations) >= 2
    /\ error_count(run.total) >= 1
    /\ success_count(run.total) >= 1

\* The size fs::metadata gave for the duplicate before the last file operation.
SizeBefore == Metadata(last.before, last.duplicate, "none").len
FailedCalls == {k \in DOMAIN last.calls :
                  /\ ~last.calls[k].ok
                  /\ last.calls[k].call \in {"remove_file", "rename", "hard_link", "symlink"}}

\* C19: a FileOperation returned by delete_file, move_file, create_hardlink or
\* create_symlink has, when it failed, an error message and no space saved, and
\* when it succeeded, no error message and the duplicate's size as read before
\* the operation; a removal, rename or link creation that fails is returned as a
\* failed FileOperation, not as an Err.
C19_OperationOutcome ==
    /\ (last.duplicate # <<>> /\ last.ok) =>
          /\ ~last.op.success => (last.op.error # "None" /\ last.op.space_saved = 0)
          /\ last.op.success => (last.op.error = "None" /\ last.op.space_saved = SizeBefore)
          /\ last.op.path = last.duplicate
    /\ FailedCalls # {} => (last.ok /\ ~last.op.success)

\* A live rename has failed and move_file has returned the failed operation.
C19_Witness ==
    /\ last.ok
    /\ ~last.op.success
    /\ last.op.action = "move"
    /\ \E k \in DOMAIN last.calls : last.calls[k] = Call("rename", FALSE)
    /\ run.status # "err"

\* The entries of directory d in filesystem f.
EntriesIn(f, d) == {p \in DOMAIN f : p[1] = d}

\* C20: a live Move never overwrites: every step of the action phase leaves
\* every entry of the target directory as it was, and a successful rename adds
\* one entry to it, the moved duplicate, under a name that was not there; so
\* what the target held before the run is unchanged and no two duplicates end
\* at the same path.
C20_MoveNeverOverwrites ==
    [][ (pc = "acting" /\ run.action.kind = "Move" /\ ~run.dry_run) =>
          /\ \A p \in EntriesIn(fs, run.action.target) : p \in DOMAIN fs' /\ fs'[p] = fs[p]
          /\ (last'.ok /\ last'.op.success) =>
                \E p \in EntriesIn(fs', run.action.target) \ EntriesIn(fs, run.action.target) :
                    /\ fs'[p] = fs[last'.duplicate]
                    /\ EntriesIn(fs', run.action.target)
                         = EntriesIn(fs, run.action.target) \cup {p} ]_vars

\* The record hashing makes of the file at path p, and the groups that the
\* candidate list and the files alone determine: for each hash that two or more
\* candidates have, the records of those candidates in the order of the list.
RecordOf(p) == FileInfo(p, Len(fs[p].data), calculate_hash(fs[p].data))
RecordsOfList == [i \in DOMAIN files |-> RecordOf(files[i])]
HashesOfList == {RecordsOfList[i].hash : i \in DOMAIN files}
DeterminedGroups ==
    [h \in {x \in HashesOfList : Len(ByHash(RecordsOfList, x)) > 1} |->
        ByHash(RecordsOfList, h)]

\* C21: for a given candidate list and files that do not change during the
\* scan, the groups scan_directories returns, the order of their members and so
\* the keeper of each are determined by the list and the files alone, whatever
\* the interleaving and the completion order of the hashing tasks.
C21_GroupingDeterministic ==
    (ScanReturned /\ appends = 0) => result.duplicates = DeterminedGroups

\* A scan of unchanged files has returned a group of two different paths whose
\* second member completed hashing before its keeper.
C21_Witness ==
    /\ ScanReturned
    /\ appends = 0
    /\ \E h \in Groups :
         /\ Members(h)[1].path # Members(h)[2].path
         /\ \E a, b \in DOMAIN done :
               /\ a < b
               /\ files[done[a]] = Members(h)[2].path
               /\ files[done[b]] = Members(h)[1].path

====
